---- MODULE Spec2Model ----
(***************************************************************************)
(* A model of src/backends/webgl/gpgpu_math.ts of tfjs-core: compiling a   *)
(* GPGPU program against concrete operands (compileProgram), validating    *)
(* and executing a compiled binary (runProgram) and deriving the cache key *)
(* (makeShaderKey).                                                        *)
(*                                                                         *)
(* JavaScript values are encoded as follows.  null is the record Null.     *)
(* number[] is a sequence of integers.  A string that the code builds by   *)
(* concatenation and that a claim compares (the shader key) is a sequence  *)
(* of one-character strings; uniform names are TLA+ strings.  A value      *)
(* given to gl.uniform* is a record [kind, vals, special]: vals holds the  *)
(* numbers, special is "NaN" or "Infinity" for the two non-finite values.  *)
(* new Int32Array(vals) is the identity on the 32-bit integers, the only   *)
(* integers of this model, and is not written out.                         *)
(***************************************************************************)
EXTENDS Integers, Sequences, FiniteSets, TLC

VARIABLES
    webglVersion,   \* ENV.getNumber('WEBGL_VERSION')
    unused,         \* uniform names the GLSL compiler of this context drops
    binaries,       \* the GPGPUBinary objects returned by compileProgram so far
    compiledFrom,   \* ghost: the arguments of the compileProgram call of each
    gl,             \* the GPGPUContext: programs, bindings, uniform values
    runs,           \* ghost: the number of runProgram calls so far
    last,           \* the latest runProgram call: arguments, outcome, operations
    keyed,          \* the makeShaderKey calls made, two at most
    shaped          \* a logical shape and the shader-visible shapes made of it

vars == <<webglVersion, unused, binaries, compiledFrom, gl, runs, last, keyed,
          shaped>>

Null == [isNull |-> TRUE]

IsNull(x) == x = Null

\* ------------------------------------------------------------------ bounds

MaxBinaries == 2

MaxRuns == 2

MaxUnused == 1

MaxRank == 3

MaxDim == 4

\* ------------------------------------------------------- sequence helpers

Range(s) == {s[i] : i \in 1..Len(s)}

RECURSIVE Concat(_)
Concat(ss) == IF Len(ss) = 0 THEN << >> ELSE Head(ss) \o Concat(Tail(ss))

RECURSIVE JoinWith(_, _)
JoinWith(ss, sep) ==
    IF Len(ss) = 0 THEN << >>
    ELSE IF Len(ss) = 1 THEN ss[1]
    ELSE ss[1] \o sep \o JoinWith(Tail(ss), sep)

CeilHalf(n) == (n + 1) \div 2

Pow2(n) == 2 ^ n

\* ------------------------------------------------------------ conversions

\* Number.prototype.toString of a non-negative integer.
DigitChar(d) ==
    CASE d = 0 -> "0" [] d = 1 -> "1" [] d = 2 -> "2" [] d = 3 -> "3"
      [] d = 4 -> "4" [] d = 5 -> "5" [] d = 6 -> "6" [] d = 7 -> "7"
      [] d = 8 -> "8" [] d = 9 -> "9"

RECURSIVE NumberToString(_)
NumberToString(n) ==
    IF n < 10 THEN <<DigitChar(n)>>
    ELSE NumberToString(n \div 10) \o <<DigitChar(n % 10)>>

\* Array.prototype.toString of a number[]: the elements joined by commas.
ArrayToString(arr) ==
    JoinWith([i \in 1..Len(arr) |-> NumberToString(arr[i])], <<",">>)

BoolToString(b) ==
    IF b THEN <<"t", "r", "u", "e">> ELSE <<"f", "a", "l", "s", "e">>

\* Element conversion of new Float32Array(vals) for an integer: a 24-bit
\* significand, round to nearest, ties to even.
RECURSIVE Float32Abs(_, _)
Float32Abs(v, ulp) ==
    IF v < Pow2(24) * ulp
    THEN LET q == v \div ulp
             r == v % ulp
         IN  IF 2 * r < ulp THEN q * ulp
             ELSE IF 2 * r > ulp THEN (q + 1) * ulp
             ELSE IF q % 2 = 0 THEN q * ulp ELSE (q + 1) * ulp
    ELSE Float32Abs(v, 2 * ulp)

ToFloat32(v) == IF v < 0 THEN 0 - Float32Abs(0 - v, 1) ELSE Float32Abs(v, 1)

\* ------------------------------------------------------------------- util

\* util.arraysEqual(n1, n2) on number[] | null.
arraysEqual(n1, n2) ==
    IF IsNull(n1) \/ IsNull(n2) THEN IsNull(n1) /\ IsNull(n2)
    ELSE /\ Len(n1) = Len(n2)
         /\ \A i \in 1..Len(n1) : n1[i] = n2[i]

\* util.sizeFromShape(shape): the product of the axes, 1 for a scalar.
RECURSIVE sizeFromShape(_)
sizeFromShape(shape) ==
    IF Len(shape) = 0 THEN 1 ELSE Head(shape) * sizeFromShape(Tail(shape))

\* util.squeezeShape(shape).newShape: the axes that are not 1.
squeezeShape(shape) == SelectSeq(shape, LAMBDA d : d # 1)

\* util.packedShapeTransform(shape): the last two axes halved, rounding up.
packedShapeTransform(shape) ==
    [i \in 1..Len(shape) |->
        IF i >= Len(shape) - 1 THEN CeilHalf(shape[i]) ELSE shape[i]]

\* util.computeStrides(shape): row-major strides, one per axis but the last.
RECURSIVE computeStrides(_)
computeStrides(shape) ==
    IF Len(shape) < 2 THEN << >>
    ELSE <<sizeFromShape(Tail(shape))>> \o computeStrides(Tail(shape))

\* ------------------------------------------------------------- data types

\* TextureData, as far as this file reads it; slice is Null or [flatOffset].
TexData(texShape, isPacked, texture, slice) ==
    [texShape |-> texShape, isPacked |-> isPacked, texture |-> texture,
     slice |-> slice]

Slice(flatOffset) == [flatOffset |-> flatOffset]

\* A TensorData stored in a texture.
TextureTensor(shape, texShape, isPacked, texture, slice) ==
    [shape |-> shape, texData |-> TexData(texShape, isPacked, texture, slice),
     isUniform |-> FALSE, uniformValues |-> Null]

\* A TensorData uploaded as a uniform; values is [kind, vals], a TypedArray.
UniformTensor(shape, values) ==
    [shape |-> shape, texData |-> Null, isUniform |-> TRUE,
     uniformValues |-> values]

Int32Array(vals) == [kind |-> "Int32Array", vals |-> vals]

Float32Array(vals) == [kind |-> "Float32Array", vals |-> vals]

\* A GPGPUProgram; name is program.constructor.name.
Program(name, variableNames, userCode, usesPackedTextures) ==
    [name |-> name, variableNames |-> variableNames, userCode |-> userCode,
     usesPackedTextures |-> usesPackedTextures]

\* The value given to a gl.uniform* call.
UniformValue(kind, vals) == [kind |-> kind, vals |-> vals, special |-> "none"]

SpecialValue(kind, special) == [kind |-> kind, vals |-> << >>, special |-> special]

\* ---------------------------------------------------------- uniform names

offsetName(varName) == "offset" \o varName

InputFamily(name) ==
    <<"shape" \o name, "texShape" \o name, "strides" \o name,
      "packedTexShape" \o name, "valuesPerRow" \o name,
      "texelsInBatch" \o name>>

OutputFamily ==
    <<"outputShape", "outputStrides", "outputTexShape",
      "outputPackedTexShape", "outputTexelsInLogicalRow",
      "outputTexelsInBatch">>

\* --------------------------------------------------- assembleProgramSource

hasFlatOffset(x) ==
    /\ ~IsNull(x.texData)
    /\ ~IsNull(x.texData.slice)
    /\ x.texData.slice.flatOffset > 0

inputShapeInfo(input) ==
    [logicalShape |-> input.shape,
     texShape |-> IF input.isUniform THEN Null ELSE input.texData.texShape,
     isUniform |-> input.isUniform,
     isPacked |-> IF input.isUniform THEN FALSE ELSE input.texData.isPacked,
     flatOffset |-> IF hasFlatOffset(input)
                    THEN Slice(input.texData.slice.flatOffset) ELSE Null]

outputShapeInfo(output) ==
    [logicalShape |-> output.shape,
     texShape |-> output.texData.texShape,
     isUniform |-> FALSE,
     isPacked |-> output.texData.isPacked,
     flatOffset |-> Null]

\* shader_compiler.makeShader is a pure function of its four arguments; the
\* source text is represented by them.
makeShader(inputInfos, outShapeInfo, userCode, usesPackedTextures) ==
    [inputInfos |-> inputInfos, outShapeInfo |-> outShapeInfo,
     userCode |-> userCode, usesPackedTextures |-> usesPackedTextures]

assembleProgramSource(program, inputs, output) ==
    LET inputInfos == [i \in 1..Len(inputs) |->
                          [name |-> program.variableNames[i],
                           shapeInfo |-> inputShapeInfo(inputs[i])]]
        outShapeInfo == outputShapeInfo(output)
    IN  [source |-> makeShader(inputInfos, outShapeInfo, program.userCode,
                               program.usesPackedTextures),
         inputInfos |-> inputInfos,
         outShapeInfo |-> outShapeInfo]

\* ------------------------------------------------------------ GPGPUContext

\* The uniforms the generated shader of `source` declares and reads: the two
\* constants (INFINITY is a uniform under WebGL 1 only), every input's sampler
\* or value, its layout family when it is a texture, its offset when it was
\* compiled with one, and the output's family.
DeclaredUniforms(source) ==
    {"NAN"} \cup (IF webglVersion = 1 THEN {"INFINITY"} ELSE {})
    \cup Range(OutputFamily)
    \cup UNION {
           {source.inputInfos[i].name}
           \cup (IF source.inputInfos[i].shapeInfo.isUniform THEN {}
                 ELSE Range(InputFamily(source.inputInfos[i].name)))
           \cup (IF IsNull(source.inputInfos[i].shapeInfo.flatOffset) THEN {}
                 ELSE {offsetName(source.inputInfos[i].name)})
           : i \in 1..Len(source.inputInfos)}

\* What the GLSL compiler drops: the names in `unused`, and with an unused
\* input everything that only its sampling code reads.
DroppedUniforms(source) ==
    unused
    \cup UNION {
           Range(InputFamily(source.inputInfos[i].name))
           \cup {offsetName(source.inputInfos[i].name)}
           : i \in {j \in 1..Len(source.inputInfos) :
                        source.inputInfos[j].name \in unused}}

ActiveUniforms(source) == DeclaredUniforms(source) \ DroppedUniforms(source)

Location(webGLProgram, name) == [program |-> webGLProgram, name |-> name]

\* gpgpu.createProgram(source): a new handle, the context remembers the source.
createProgram(ctx, source) ==
    [ctx |-> [ctx EXCEPT !.programs = Append(@, source)],
     webGLProgram |-> Len(ctx.programs) + 1]

\* gpgpu.getUniformLocation(webGLProgram, name, false): null when the linked
\* program has no active uniform of that name.
getUniformLocation(ctx, webGLProgram, name) ==
    IF webGLProgram \in 1..Len(ctx.programs)
    THEN IF name \in ActiveUniforms(ctx.programs[webGLProgram])
         THEN Location(webGLProgram, name) ELSE Null
    ELSE Null

\* ---------------------------------------------------------- compileProgram

\* binary.uniformLocations[name]; a missing key reads as undefined, which the
\* code's "!= null" tests treat as null.
Lookup(uniformLocations, name) ==
    IF name \in DOMAIN uniformLocations THEN uniformLocations[name] ELSE Null

\* The loop over program.variableNames: both keys are always written, with
\* null when the location is absent.
userUniformLocations(ctx, webGLProgram, variableNames) ==
    LET keys == Range(variableNames)
                \cup {offsetName(v) : v \in Range(variableNames)}
    IN  [n \in keys |-> getUniformLocation(ctx, webGLProgram, n)]

\* Writes a key only for a location that was found.
recordUniformLocations(ctx, webGLProgram, uniformLocations, varNames) ==
    LET found == {n \in Range(varNames) :
                     ~IsNull(getUniformLocation(ctx, webGLProgram, n))}
    IN  [n \in DOMAIN uniformLocations \cup found |->
            IF n \in found THEN getUniformLocation(ctx, webGLProgram, n)
            ELSE uniformLocations[n]]

\* The loop over inputInfos, inputs i..Len(inputInfos).
RECURSIVE recordInputLocations(_, _, _, _, _)
recordInputLocations(ctx, webGLProgram, uniformLocations, inputInfos, i) ==
    IF i > Len(inputInfos) THEN uniformLocations
    ELSE recordInputLocations(ctx, webGLProgram,
            IF Len(inputInfos[i].shapeInfo.logicalShape) > 0
            THEN recordUniformLocations(ctx, webGLProgram, uniformLocations,
                                        InputFamily(inputInfos[i].name))
            ELSE uniformLocations,
            inputInfos, i + 1)

\* compileProgram looking the uniforms up in the program the context has
\* bound (gpgpu.program) instead of the program it has just created.
compileProgramOnBound(ctx, program, inputs, output) ==
    LET asm == assembleProgramSource(program, inputs, output)
        created == createProgram(ctx, asm.source)
        c == created.ctx
        webGLProgram == created.webGLProgram
        nanLoc == getUniformLocation(c, c.program, "NAN")
        infLoc == IF webglVersion = 1
                  THEN getUniformLocation(c, c.program, "INFINITY")
                  ELSE Null
        userLocs == userUniformLocations(c, c.program, program.variableNames)
        inLocs == recordInputLocations(c, c.program, userLocs,
                                       asm.inputInfos, 1)
        uniformLocations ==
            IF Len(asm.outShapeInfo.logicalShape) > 0
            THEN recordUniformLocations(c, c.program, inLocs, OutputFamily)
            ELSE inLocs
    IN  [ctx |-> c,
         binary |-> [program |-> program,
                     source |-> asm.source,
                     webGLProgram |-> webGLProgram,
                     uniformLocations |-> uniformLocations,
                     inShapeInfos |-> [i \in 1..Len(asm.inputInfos) |->
                                          asm.inputInfos[i].shapeInfo],
                     outShapeInfo |-> asm.outShapeInfo,
                     infLoc |-> infLoc,
                     nanLoc |-> nanLoc]]

\* compileProgram(gpgpu, program, inputs, output): the binary and the context
\* after gpgpu.createProgram.
compileProgram(ctx, program, inputs, output) ==
    LET asm == assembleProgramSource(program, inputs, output)
        created == createProgram(ctx, asm.source)
        c == created.ctx
        webGLProgram == created.webGLProgram
        nanLoc == getUniformLocation(c, webGLProgram, "NAN")
        infLoc == IF webglVersion = 1
                  THEN getUniformLocation(c, webGLProgram, "INFINITY")
                  ELSE Null
        userLocs == userUniformLocations(c, webGLProgram, program.variableNames)
        inLocs == recordInputLocations(c, webGLProgram, userLocs,
                                       asm.inputInfos, 1)
        uniformLocations ==
            IF Len(asm.outShapeInfo.logicalShape) > 0
            THEN recordUniformLocations(c, webGLProgram, inLocs, OutputFamily)
            ELSE inLocs
    IN  [ctx |-> c,
         binary |-> [program |-> program,
                     source |-> asm.source,
                     webGLProgram |-> webGLProgram,
                     uniformLocations |-> uniformLocations,
                     inShapeInfos |-> [i \in 1..Len(asm.inputInfos) |->
                                          asm.inputInfos[i].shapeInfo],
                     outShapeInfo |-> asm.outShapeInfo,
                     infLoc |-> infLoc,
                     nanLoc |-> nanLoc]]

\* ------------------------------------------------ validateBinaryAndProgram

\* validateOperand without the comparison of the logical shapes.
validateOperandNoShapes(s, input) ==
    IF s.isUniform /\ input.isUniform THEN "none"
    ELSE IF ~arraysEqual(s.texShape,
                         IF input.isUniform THEN Null
                         ELSE input.texData.texShape)
         THEN "texture shapes"
    ELSE "none"

\* validateOperand without the comparison of the texture shapes.
validateOperandNoTexShapes(s, input) ==
    IF ~arraysEqual(s.logicalShape, input.shape) THEN "shapes" ELSE "none"

\* The check of one operand inside the forEach: "none" when it returns, else
\* which Error it throws.
validateOperand(s, input) ==
    IF ~arraysEqual(s.logicalShape, input.shape) THEN "shapes"
    ELSE IF s.isUniform /\ input.isUniform THEN "none"
    ELSE IF ~arraysEqual(s.texShape,
                         IF input.isUniform THEN Null
                         ELSE input.texData.texShape)
         THEN "texture shapes"
    ELSE "none"

\* validateBinaryAndProgram(shapeInfos, inputs): "none" when it returns, else
\* the Error of the first check that throws.
validateBinaryAndProgram(shapeInfos, inputs) ==
    IF Len(shapeInfos) # Len(inputs) THEN "inputs"
    ELSE LET bad == {i \in 1..Len(shapeInfos) :
                        validateOperand(shapeInfos[i], inputs[i]) # "none"}
         IN  IF bad = {} THEN "none"
             ELSE validateOperand(
                      shapeInfos[CHOOSE i \in bad : \A j \in bad : i <= j],
                      inputs[CHOOSE i \in bad : \A j \in bad : i <= j])

\* --------------------------------------------------------------- runProgram

\* A JavaScript number that may be NaN.
NaN == [nan |-> TRUE, n |-> 0]

Num(n) == [nan |-> FALSE, n |-> n]

\* Math.ceil(shape[index] * 0.5), index counted from 0 as in the code; an
\* index outside the array reads undefined, and undefined * 0.5 is NaN.
ceilHalfAt(shape, index) ==
    IF index >= 0 /\ index < Len(shape)
    THEN Num(CeilHalf(shape[index + 1])) ELSE NaN

Times(a, b) == IF a.nan \/ b.nan THEN NaN ELSE Num(a.n * b.n)

\* The operations runProgram performs on the context, in order.
UniformOp(loc, value) == [op |-> "uniform", loc |-> loc, value |-> value]

uploadUniform1ivVals(binary, uniformName, values) ==
    IF ~IsNull(Lookup(binary.uniformLocations, uniformName))
    THEN <<UniformOp(Lookup(binary.uniformLocations, uniformName),
                     UniformValue("1iv", values))>>
    ELSE << >>

uploadUniform1iVals(binary, uniformName, values) ==
    IF ~IsNull(Lookup(binary.uniformLocations, uniformName))
    THEN <<UniformOp(Lookup(binary.uniformLocations, uniformName),
                     IF values.nan THEN SpecialValue("1i", "NaN")
                     ELSE UniformValue("1i", <<values.n>>))>>
    ELSE << >>

\* bindOutputOps choosing the binding call on the program's packed flag
\* instead of the output's.
bindOutputOpsByProgramFlag(binary, output) ==
    <<[op |-> IF binary.program.usesPackedTextures
              THEN "setOutputPackedMatrixTexture"
              ELSE "setOutputMatrixTexture",
       texture |-> output.texData.texture,
       rows |-> output.texData.texShape[1],
       columns |-> output.texData.texShape[2]],
      [op |-> "setProgram", program |-> binary.webGLProgram]>>

\* Lines 270-277: bind the output texture, then the program.
bindOutputOps(binary, output) ==
    <<[op |-> IF output.texData.isPacked
              THEN "setOutputPackedMatrixTexture"
              ELSE "setOutputMatrixTexture",
       texture |-> output.texData.texture,
       rows |-> output.texData.texShape[1],
       columns |-> output.texData.texShape[2]],
      [op |-> "setProgram", program |-> binary.webGLProgram]>>

\* specialUniformOps with the NAN upload inside the WEBGL_VERSION block.
specialUniformOpsOnlyLegacy(binary) ==
    IF webglVersion = 1
    THEN (IF ~IsNull(binary.infLoc)
          THEN <<UniformOp(binary.infLoc, SpecialValue("1f", "Infinity"))>>
          ELSE << >>)
         \o (IF ~IsNull(binary.nanLoc)
             THEN <<UniformOp(binary.nanLoc, SpecialValue("1f", "NaN"))>>
             ELSE << >>)
    ELSE << >>

\* Lines 279-287: the special uniforms.
specialUniformOps(binary) ==
    (IF webglVersion = 1 /\ ~IsNull(binary.infLoc)
     THEN <<UniformOp(binary.infLoc, SpecialValue("1f", "Infinity"))>>
     ELSE << >>)
    \o (IF ~IsNull(binary.nanLoc)
        THEN <<UniformOp(binary.nanLoc, SpecialValue("1f", "NaN"))>>
        ELSE << >>)

\* uniformInputOps deciding on the rank of the shape instead of its size.
uniformInputOpsByRank(varLoc, input) ==
    IF Len(input.shape) < 2
    THEN <<UniformOp(varLoc, UniformValue("1f", <<input.uniformValues.vals[1]>>))>>
    ELSE <<UniformOp(varLoc, UniformValue("1fv",
              IF input.uniformValues.kind = "Float32Array"
              THEN input.uniformValues.vals
              ELSE [k \in 1..Len(input.uniformValues.vals) |->
                       ToFloat32(input.uniformValues.vals[k])]))>>

\* Lines 299-311: an input uploaded as a uniform.
uniformInputOps(varLoc, input) ==
    IF sizeFromShape(input.shape) < 2
    THEN <<UniformOp(varLoc, UniformValue("1f", <<input.uniformValues.vals[1]>>))>>
    ELSE <<UniformOp(varLoc, UniformValue("1fv",
              IF input.uniformValues.kind = "Float32Array"
              THEN input.uniformValues.vals
              ELSE [k \in 1..Len(input.uniformValues.vals) |->
                       ToFloat32(input.uniformValues.vals[k])]))>>

\* shaderShape deciding on the input's packed flag instead of the program's.
shaderShapeByInputFlag(binary, input) ==
    IF input.texData.isPacked
    THEN packedShapeTransform(input.shape)
    ELSE squeezeShape(input.shape)

\* Lines 313-321: the shape the shader program addresses the input with.
shaderShape(binary, input) ==
    IF binary.program.usesPackedTextures
    THEN packedShapeTransform(input.shape)
    ELSE squeezeShape(input.shape)

\* Lines 313-353: an input stored in a texture; i is its position, from 0.
textureInputOps(binary, varName, varLoc, input, i) ==
    LET shape == shaderShape(binary, input)
        texShape == input.texData.texShape
        packedTexShape == <<CeilHalf(texShape[1]), CeilHalf(texShape[2])>>
        rank == Len(shape)
        valuesPerRow == ceilHalfAt(shape, rank - 1)
        texelsInBatch == Times(valuesPerRow, ceilHalfAt(shape, rank - 2))
    IN  uploadUniform1ivVals(binary, "shape" \o varName, shape)
        \o uploadUniform1ivVals(binary, "strides" \o varName,
                                computeStrides(shape))
        \o uploadUniform1ivVals(binary, "texShape" \o varName, texShape)
        \o uploadUniform1ivVals(binary, "packedTexShape" \o varName,
                                packedTexShape)
        \o uploadUniform1iVals(binary, "valuesPerRow" \o varName, valuesPerRow)
        \o uploadUniform1iVals(binary, "texelsInBatch" \o varName,
                               texelsInBatch)
        \o (IF ~IsNull(input.texData.slice)
            THEN uploadUniform1iVals(binary, offsetName(varName),
                                     Num(input.texData.slice.flatOffset))
            ELSE << >>)
        \o <<[op |-> "setInputMatrixTexture",
              texture |-> input.texData.texture,
              loc |-> varLoc, unit |-> i]>>

\* Lines 290-354: the body of inputs.forEach for the input at position i
\* (from 0).
inputOps(binary, input, i) ==
    LET varName == binary.program.variableNames[i + 1]
        varLoc == Lookup(binary.uniformLocations, varName)
    IN  IF IsNull(varLoc) THEN << >>
        ELSE IF input.isUniform THEN uniformInputOps(varLoc, input)
        ELSE textureInputOps(binary, varName, varLoc, input, i)

\* allInputOps leaving the loop at the first input without a location,
\* instead of going on to the next input.
allInputOpsUntilUnresolved(binary, inputs) ==
    LET unresolved ==
            {k \in 1..Len(inputs) :
                IsNull(Lookup(binary.uniformLocations,
                              binary.program.variableNames[k]))}
        n == IF unresolved = {} THEN Len(inputs)
             ELSE (CHOOSE k \in unresolved : \A j \in unresolved : k <= j) - 1
    IN  Concat([k \in 1..n |-> inputOps(binary, inputs[k], k - 1)])

allInputOps(binary, inputs) ==
    Concat([k \in 1..Len(inputs) |-> inputOps(binary, inputs[k], k - 1)])

\* outputOps computing the output's shape as the inputs' shapes are computed,
\* packed or squeezed.
outputOpsLikeInput(binary, output) ==
    IF Len(output.shape) > 0
    THEN LET outputShape == shaderShape(binary, output)
             outputTexShape == output.texData.texShape
             rank == Len(outputShape)
             outputTexelsInLogicalRow == ceilHalfAt(outputShape, rank - 1)
             outputTexelsInBatch ==
                 Times(outputTexelsInLogicalRow,
                       ceilHalfAt(outputShape, rank - 2))
         IN  uploadUniform1ivVals(binary, "outputShape", outputShape)
             \o uploadUniform1ivVals(binary, "outputStrides",
                                     computeStrides(outputShape))
             \o uploadUniform1ivVals(binary, "outputTexShape", outputTexShape)
             \o uploadUniform1ivVals(binary, "outputPackedTexShape",
                    <<CeilHalf(outputTexShape[1]), CeilHalf(outputTexShape[2])>>)
             \o uploadUniform1iVals(binary, "outputTexelsInLogicalRow",
                                    outputTexelsInLogicalRow)
             \o uploadUniform1iVals(binary, "outputTexelsInBatch",
                                    outputTexelsInBatch)
    ELSE << >>

\* outputOps with the conditional that lines 370-380 leave commented out: the
\* packed texture shape only for a program that uses packed textures.
outputOpsPackedOnly(binary, output) ==
    IF Len(output.shape) > 0
    THEN LET outputShape == output.shape
             outputTexShape == output.texData.texShape
             rank == Len(outputShape)
             outputTexelsInLogicalRow == ceilHalfAt(outputShape, rank - 1)
             outputTexelsInBatch ==
                 Times(outputTexelsInLogicalRow,
                       ceilHalfAt(outputShape, rank - 2))
         IN  uploadUniform1ivVals(binary, "outputShape", outputShape)
             \o uploadUniform1ivVals(binary, "outputStrides",
                                     computeStrides(outputShape))
             \o uploadUniform1ivVals(binary, "outputTexShape", outputTexShape)
             \o (IF binary.program.usesPackedTextures
                 THEN uploadUniform1ivVals(binary, "outputPackedTexShape",
                        <<CeilHalf(outputTexShape[1]),
                          CeilHalf(outputTexShape[2])>>)
                 ELSE << >>)
             \o uploadUniform1iVals(binary, "outputTexelsInLogicalRow",
                                    outputTexelsInLogicalRow)
             \o uploadUniform1iVals(binary, "outputTexelsInBatch",
                                    outputTexelsInBatch)
    ELSE << >>

\* Lines 356-391: the output's uniforms.
outputOps(binary, output) ==
    IF Len(output.shape) > 0
    THEN LET outputShape == output.shape
             outputTexShape == output.texData.texShape
             rank == Len(outputShape)
             outputTexelsInLogicalRow == ceilHalfAt(outputShape, rank - 1)
             outputTexelsInBatch ==
                 Times(outputTexelsInLogicalRow,
                       ceilHalfAt(outputShape, rank - 2))
         IN  uploadUniform1ivVals(binary, "outputShape", outputShape)
             \o uploadUniform1ivVals(binary, "outputStrides",
                                     computeStrides(outputShape))
             \o uploadUniform1ivVals(binary, "outputTexShape", outputTexShape)
             \o uploadUniform1ivVals(binary, "outputPackedTexShape",
                    <<CeilHalf(outputTexShape[1]), CeilHalf(outputTexShape[2])>>)
             \o uploadUniform1iVals(binary, "outputTexelsInLogicalRow",
                                    outputTexelsInLogicalRow)
             \o uploadUniform1iVals(binary, "outputTexelsInBatch",
                                    outputTexelsInBatch)
    ELSE << >>

\* A caller's customSetup is Null or [name, value]: a hook that sets the
\* program's uniform `name` to `value` with gl.uniform1f, when it is active.
customSetupOps(ctx, binary, customSetup) ==
    IF IsNull(customSetup) THEN << >>
    ELSE <<[op |-> "customSetup", program |-> binary.webGLProgram]>>
         \o (IF ~IsNull(getUniformLocation(ctx, binary.webGLProgram,
                                           customSetup.name))
             THEN <<UniformOp(Location(binary.webGLProgram, customSetup.name),
                              UniformValue("1f", <<customSetup.value>>))>>
             ELSE << >>)

\* executionOps with the setup hook called before the uploads.
executionOpsHookFirst(ctx, binary, inputs, output, customSetup) ==
    bindOutputOps(binary, output)
    \o customSetupOps(ctx, binary, customSetup)
    \o specialUniformOps(binary)
    \o allInputOps(binary, inputs)
    \o outputOps(binary, output)
    \o <<[op |-> "executeProgram"]>>

\* Lines 270-396: everything runProgram does once both validations passed.
executionOps(ctx, binary, inputs, output, customSetup) ==
    bindOutputOps(binary, output)
    \o specialUniformOps(binary)
    \o allInputOps(binary, inputs)
    \o outputOps(binary, output)
    \o customSetupOps(ctx, binary, customSetup)
    \o <<[op |-> "executeProgram"]>>

\* runProgram validating the output only after it has bound it.
runProgramOutputCheckedLate(ctx, binary, inputs, output, customSetup) ==
    LET inErr == validateBinaryAndProgram(binary.inShapeInfos, inputs)
        outErr == validateBinaryAndProgram(<<binary.outShapeInfo>>, <<output>>)
    IN  IF inErr # "none" THEN [error |-> inErr, ops |-> << >>]
        ELSE IF outErr # "none"
        THEN [error |-> outErr, ops |-> bindOutputOps(binary, output)]
        ELSE [error |-> "none",
              ops |-> executionOps(ctx, binary, inputs, output, customSetup)]

\* runProgram(gpgpu, binary, inputs, output, customSetup): the Error it
\* throws ("none" when it returns) and its operations on the context.
runProgram(ctx, binary, inputs, output, customSetup) ==
    LET inErr == validateBinaryAndProgram(binary.inShapeInfos, inputs)
        outErr == validateBinaryAndProgram(<<binary.outShapeInfo>>, <<output>>)
    IN  IF inErr # "none" THEN [error |-> inErr, ops |-> << >>]
        ELSE IF outErr # "none" THEN [error |-> outErr, ops |-> << >>]
        ELSE [error |-> "none",
              ops |-> executionOps(ctx, binary, inputs, output, customSetup)]

\* ------------------------------------------------- the context's operations

\* f with x mapped to v.
Put(f, x, v) == [y \in DOMAIN f \cup {x} |-> IF y = x THEN v ELSE f[y]]

\* The effect of one operation; `call` numbers the runProgram call issuing it.
\* Uniform values belong to the program object and persist until overwritten.
\* executeProgram draws with the state bound at that moment, kept in `drawn`.
ApplyOp(ctx, op, call) ==
    CASE op.op \in {"setOutputMatrixTexture", "setOutputPackedMatrixTexture"} ->
           [ctx EXCEPT !.target =
               [texture |-> op.texture, rows |-> op.rows,
                columns |-> op.columns,
                packed |-> op.op = "setOutputPackedMatrixTexture"]]
      [] op.op = "setProgram" ->
           [ctx EXCEPT !.program = op.program]
      [] op.op = "uniform" ->
           [ctx EXCEPT !.uniforms =
               Put(@, op.loc, [value |-> op.value, call |-> call])]
      [] op.op = "setInputMatrixTexture" ->
           [ctx EXCEPT !.units = Put(@, op.unit, op.texture),
                       !.uniforms = Put(@, op.loc,
                           [value |-> UniformValue("1i", <<op.unit>>),
                            call |-> call])]
      [] op.op = "customSetup" -> ctx
      [] op.op = "executeProgram" ->
           [ctx EXCEPT !.drawn =
               [program |-> ctx.program, target |-> ctx.target,
                uniforms |-> ctx.uniforms, units |-> ctx.units,
                call |-> call]]

RECURSIVE ApplyOps(_, _, _)
ApplyOps(ctx, ops, call) ==
    IF Len(ops) = 0 THEN ctx
    ELSE ApplyOps(ApplyOp(ctx, Head(ops), call), Tail(ops), call)

NewContext ==
    [programs |-> << >>, program |-> 0, target |-> Null,
     uniforms |-> << >>, units |-> << >>, drawn |-> Null]

\* ------------------------------------------------------------ makeShaderKey

\* keyInput with the offset itself in the place of hasOffset.
keyInputOffsetValue(x) ==
    ArrayToString(x.shape) \o <<"_">>
    \o (IF x.isUniform THEN <<"u", "n", "i", "f", "o", "r", "m">>
        ELSE ArrayToString(x.texData.texShape))
    \o <<"_">>
    \o (IF hasFlatOffset(x) THEN NumberToString(x.texData.slice.flatOffset)
        ELSE BoolToString(FALSE))

\* keyInput without hasOffset.
keyInputNoOffset(x) ==
    ArrayToString(x.shape) \o <<"_">>
    \o (IF x.isUniform THEN <<"u", "n", "i", "f", "o", "r", "m">>
        ELSE ArrayToString(x.texData.texShape))

\* keyInput with the texture shape left out.
keyInputNoTexShape(x) ==
    ArrayToString(x.shape) \o <<"_">>
    \o (IF x.isUniform THEN <<"u", "n", "i", "f", "o", "r", "m">>
        ELSE << >>)
    \o <<"_">> \o BoolToString(hasFlatOffset(x))

\* One operand's contribution: `${x.shape}_${texShape}_${hasOffset}`.
keyInput(x) ==
    ArrayToString(x.shape) \o <<"_">>
    \o (IF x.isUniform THEN <<"u", "n", "i", "f", "o", "r", "m">>
        ELSE ArrayToString(x.texData.texShape))
    \o <<"_">> \o BoolToString(hasFlatOffset(x))

makeShaderKey(program, inputs, output) ==
    LET operands == inputs \o <<output>>
        keyInputs == Concat([i \in 1..Len(operands) |-> keyInput(operands[i])])
    IN  program.name \o <<"_">> \o keyInputs \o <<"_">> \o program.userCode

\* ------------------------------------------------------------- environment

\* The programs the callers compile: a unary one and a binary one that uses
\* packed textures.
UnaryOp == Program(<<"U", "n", "a", "r", "y">>, <<"A">>, <<"u">>, FALSE)

BinaryOp == Program(<<"B", "i", "n", "a", "r", "y">>, <<"A", "B">>, <<"b">>, TRUE)

Programs == {UnaryOp, BinaryOp}

\* Operands of logical shape [1,4]: a plain texture, the same sliced at a
\* nonzero offset, another texture shape, a packed texture, a uniform; then
\* operands of other logical shapes.
Plain == TextureTensor(<<1, 4>>, <<1, 4>>, FALSE, 1, Null)

Sliced == TextureTensor(<<1, 4>>, <<1, 4>>, FALSE, 1, Slice(1))

Square == TextureTensor(<<1, 4>>, <<2, 2>>, FALSE, 2, Null)

Packed == TextureTensor(<<1, 4>>, <<1, 4>>, TRUE, 2, Null)

Vector == UniformTensor(<<1, 4>>, Int32Array(<<1, 2, 3, 16777217>>))

Single == UniformTensor(<<1, 1>>, Float32Array(<<7>>))

Cube == TextureTensor(<<2, 1, 6>>, <<3, 4>>, FALSE, 2, Null)

\* Outputs of logical shape [3,5], and a scalar one.
OutPlain == TextureTensor(<<3, 5>>, <<3, 5>>, FALSE, 3, Null)

OutPacked == TextureTensor(<<3, 5>>, <<3, 5>>, TRUE, 3, Null)

OutWide == TextureTensor(<<3, 5>>, <<1, 15>>, FALSE, 3, Null)

OutScalar == TextureTensor(<< >>, <<1, 1>>, FALSE, 4, Null)

\* The operands a caller passes: the first input and the output vary most,
\* a second input is a texture or a uniform.
CompileInputs == {Plain, Sliced, Vector, Single, Cube}

RunInputs == CompileInputs \cup {Square, Packed}

SecondInputs == {Plain, Vector}

CompileOutputs == {OutPlain, OutScalar}

RunOutputs == CompileOutputs \cup {OutWide}

\* The lists of n operands: the first from First, the others from Others.
Lists(First, Others, n) ==
    {l \in [1..n -> First \cup Others] :
        \A i \in 1..n : l[i] \in (IF i = 1 THEN First ELSE Others)}

\* The setup hooks: none, or one that overwrites the NAN uniform.
Hooks == {Null, [name |-> "NAN", value |-> 42]}

\* The names a GLSL compiler may find unread.
Droppable == {"A", "NAN", "INFINITY", "stridesA"}

\* The contexts: a WebGL 1 context with the names its compiler drops, and a
\* WebGL 2 context that drops none.
Contexts ==
    ({1} \X {u \in SUBSET Droppable : Cardinality(u) <= MaxUnused})
    \cup {<<2, {}>>}

\* ------------------------------------------------------------------ actions

\* The value of `shaped` when no shape is being transformed.
NoShape == [trail |-> << >>, transforms |-> << >>]

\* The value of `last` before the first runProgram call.
NoCall ==
    [binary |-> 0, inputs |-> << >>, output |-> Null, customSetup |-> Null,
     error |-> "none", ops |-> << >>, call |-> 0]

Init ==
    /\ \E c \in Contexts : webglVersion = c[1] /\ unused = c[2]
    /\ binaries = << >>
    /\ compiledFrom = << >>
    /\ gl = NewContext
    /\ runs = 0
    /\ last = NoCall
    /\ keyed = << >>
    /\ shaped = NoShape

\* A caller compiles `program` against the operands.
CompileProgram(program, inputs, output) ==
    /\ \E r \in {compileProgram(gl, program, inputs, output)} :
           /\ gl' = r.ctx
           /\ binaries' = Append(binaries, r.binary)
           /\ compiledFrom' = Append(compiledFrom,
                  [program |-> program, inputs |-> inputs, output |-> output])
    /\ UNCHANGED <<webglVersion, unused, runs, last, keyed, shaped>>

\* RunProgram recording in the binary the operands it was last run on.
RunProgramRecording(b, inputs, output, customSetup) ==
    /\ runs < MaxRuns
    /\ \E r \in {runProgram(gl, binaries[b], inputs, output, customSetup)} :
           /\ gl' = ApplyOps(gl, r.ops, runs + 1)
           /\ last' = [binary |-> b, inputs |-> inputs, output |-> output,
                       customSetup |-> customSetup, error |-> r.error,
                       ops |-> r.ops, call |-> runs + 1]
           /\ binaries' =
                 IF r.error = "none"
                 THEN [binaries EXCEPT ![b].inShapeInfos =
                          [i \in 1..Len(inputs) |-> inputShapeInfo(inputs[i])]]
                 ELSE binaries
    /\ runs' = runs + 1
    /\ UNCHANGED <<webglVersion, unused, compiledFrom, keyed, shaped>>

\* A caller runs the binary `b` on the operands.  A call that threw leaves
\* no trace in runProgram: other calls may follow it.
RunProgram(b, inputs, output, customSetup) ==
    /\ runs < MaxRuns
    /\ \E r \in {runProgram(gl, binaries[b], inputs, output, customSetup)} :
           /\ gl' = ApplyOps(gl, r.ops, runs + 1)
           /\ last' = [binary |-> b, inputs |-> inputs, output |-> output,
                       customSetup |-> customSetup, error |-> r.error,
                       ops |-> r.ops, call |-> runs + 1]
    /\ runs' = runs + 1
    /\ UNCHANGED <<webglVersion, unused, binaries, compiledFrom, keyed, shaped>>

\* The output and the hook of a call: every output without a hook, and one
\* output with each hook.
RunTargets == (RunOutputs \X {Null}) \cup ({OutPlain} \X Hooks)

\* The operand lists a caller passes to a binary of `arity` inputs: the
\* lists of that many operands that vary the first or the second operand,
\* and one list with an operand less or more.
RunInputLists(arity) ==
    Lists(RunInputs, {Plain}, arity)
    \cup Lists({Plain}, SecondInputs, arity)
    \cup Lists({Plain}, {Plain}, arity - 1)
    \cup Lists({Plain}, {Plain}, arity + 1)

\* One binary, compiled once and run on every operand.
Next ==
    \/ /\ binaries = << >>
       /\ \E program \in Programs, output \in CompileOutputs :
            \E inputs \in Lists(CompileInputs, SecondInputs,
                                Len(program.variableNames)) :
               CompileProgram(program, inputs, output)
    \/ \E b \in 1..Len(binaries), target \in RunTargets :
         \E inputs \in RunInputLists(Len(binaries[b].program.variableNames)) :
            RunProgram(b, inputs, target[1], target[2])

Spec == Init /\ [][Next]_vars

\* ------------------------------------------------- makeShaderKey, on its own

\* More operands for the key: slices at a zero and at another nonzero offset,
\* a uniform of other values, a scalar texture, and shapes of two digits.
SlicedAtZero == TextureTensor(<<1, 4>>, <<1, 4>>, FALSE, 1, Slice(0))

SlicedMore == TextureTensor(<<1, 4>>, <<1, 4>>, FALSE, 2, Slice(2))

VectorOther == UniformTensor(<<1, 4>>, Float32Array(<<5, 6, 7, 8>>))

Scalar == TextureTensor(<< >>, <<1, 1>>, FALSE, 1, Null)

Row == TextureTensor(<<15>>, <<1, 15>>, FALSE, 1, Null)

RowOfOne == TextureTensor(<<1, 15>>, <<1, 15>>, FALSE, 1, Null)

Column == TextureTensor(<<15>>, <<15, 1>>, FALSE, 1, Null)

KeyInputs ==
    RunInputs \cup {SlicedAtZero, SlicedMore, VectorOther, Scalar, Row,
                    RowOfOne, Column}

KeySecondInputs == {Scalar, Vector}

KeyOutputs == {OutPlain, OutPacked, OutScalar}

InitKey ==
    /\ webglVersion = 2
    /\ unused = {}
    /\ binaries = << >>
    /\ compiledFrom = << >>
    /\ gl = NewContext
    /\ runs = 0
    /\ last = NoCall
    /\ keyed = << >>
    /\ shaped = NoShape

\* A caller asks for the key of `program` on the operands; `keyed` holds the
\* two calls that are compared.
MakeShaderKey(program, inputs, output) ==
    /\ Len(keyed) < 2
    /\ keyed' = keyed \o <<[program |-> program, inputs |-> inputs,
                            output |-> output,
                            key |-> makeShaderKey(program, inputs, output)]>>
    /\ UNCHANGED <<webglVersion, unused, binaries, compiledFrom, gl, runs, last,
                   shaped>>

NextKey ==
    \E program \in Programs, n \in 0..2, output \in KeyOutputs :
       \E inputs \in Lists(KeyInputs, KeySecondInputs, n) :
          MakeShaderKey(program, inputs, output)

SpecKey == InitKey /\ [][NextKey]_vars

\* ----------------------------------------- the shader-visible shape, alone

\* The logical shapes: up to MaxRank axes of 1..MaxDim each.
Shapes == UNION {[1..n -> 1..MaxDim] : n \in 0..MaxRank}

InitShape ==
    /\ webglVersion = 2
    /\ unused = {}
    /\ binaries = << >>
    /\ compiledFrom = << >>
    /\ gl = NewContext
    /\ runs = 0
    /\ last = NoCall
    /\ keyed = << >>
    /\ \E shape \in Shapes :
          shaped = [trail |-> <<shape>>, transforms |-> << >>]

\* The executor's computation of the shader-visible shape (lines 313-321),
\* applied to the latest shape of the trail as the logical shape of a
\* texture input of a program that uses packed textures or does not.
ShaderShape(usesPackedTextures) ==
    /\ Len(shaped.transforms) < 2
    /\ shaped' =
          [trail |-> Append(shaped.trail,
              shaderShape(
                  [program |-> Program(<<"P">>, <<"A">>, <<"u">>,
                                       usesPackedTextures)],
                  TextureTensor(shaped.trail[Len(shaped.trail)], <<1, 1>>,
                                FALSE, 1, Null))),
           transforms |-> Append(shaped.transforms,
              IF usesPackedTextures THEN "pack" ELSE "squeeze")]
    /\ UNCHANGED <<webglVersion, unused, binaries, compiledFrom, gl, runs, last,
                   keyed>>

NextShape == \E usesPackedTextures \in BOOLEAN : ShaderShape(usesPackedTextures)

SpecShape == InitShape /\ [][NextShape]_vars

\* ------------------------------------------------------------ recompilation

RecompileInputs == {Plain, Vector}

RecompileRunInputs == {Plain, Vector}

\* Up to MaxBinaries compilations, the same arguments again among them, with
\* runs in between.
NextRecompile ==
    \/ /\ Len(binaries) < MaxBinaries
       /\ \E program \in Programs :
            \E inputs \in Lists(RecompileInputs, {Plain},
                                Len(program.variableNames)) :
               CompileProgram(program, inputs, OutPlain)
    \/ \E b \in 1..Len(binaries) :
         \E inputs \in Lists(RecompileRunInputs, {Plain},
                             Len(binaries[b].program.variableNames)) :
            RunProgram(b, inputs, OutPlain, Null)

SpecRecompile == Init /\ [][NextRecompile]_vars

\* ------------------------------------------------------ the layout uniforms

\* Operands of more shapes: [1,1], which squeezes to a scalar, a shape of
\* three axes none of which is 1, and an output with an axis of size 1.
Unit == TextureTensor(<<1, 1>>, <<1, 1>>, FALSE, 1, Null)

Block == TextureTensor(<<2, 3, 2>>, <<3, 4>>, FALSE, 1, Null)

OutRow == TextureTensor(<<1, 5>>, <<1, 5>>, FALSE, 3, Null)

LayoutInputs == {Plain, Cube, Scalar, Unit, Block}

LayoutOutputs == {OutPlain, OutRow, OutScalar}

\* One binary, compiled against operands of these shapes and run on them.
NextLayout ==
    \/ /\ binaries = << >>
       /\ \E program \in Programs, output \in LayoutOutputs :
            \E inputs \in Lists(LayoutInputs, {Plain},
                                Len(program.variableNames)) :
               CompileProgram(program, inputs, output)
    \/ \E b \in 1..Len(binaries), output \in LayoutOutputs :
         \E inputs \in Lists(LayoutInputs, {Plain},
                             Len(binaries[b].program.variableNames)) :
            RunProgram(b, inputs, output, Null)

SpecLayout == Init /\ [][NextLayout]_vars

\* ------------------------------------------------------ runs one after another

\* Up to MaxBinaries binaries of the two programs, run one after another on
\* a packed or an unpacked output, with and without a hook.
NextOrder ==
    \/ /\ Len(binaries) < MaxBinaries
       /\ \E program \in Programs :
            \E inputs \in Lists({Plain}, {Plain}, Len(program.variableNames)) :
               CompileProgram(program, inputs, OutPlain)
    \/ \E b \in 1..Len(binaries), output \in {OutPlain, OutPacked},
          customSetup \in Hooks :
         \E inputs \in Lists({Plain}, {Plain},
                             Len(binaries[b].program.variableNames)) :
            RunProgram(b, inputs, output, customSetup)

SpecOrder == Init /\ [][NextOrder]_vars

\* ---------------------------------------------------- the latest execution

Executed == last.call > 0

Succeeded == Executed /\ last.error = "none"

Failed == Executed /\ last.error # "none"

\* The call issued gpgpu.executeProgram.
Dispatched ==
    /\ \E k \in 1..Len(last.ops) : last.ops[k].op = "executeProgram"
    /\ ~IsNull(gl.drawn)
    /\ gl.drawn.call = last.call

\* No trace of a dispatch by the call.
NotDispatched ==
    /\ \A k \in 1..Len(last.ops) : last.ops[k].op # "executeProgram"
    /\ IsNull(gl.drawn) \/ gl.drawn.call # last.call

LastBinary == binaries[last.binary]

\* The operands of the call, inputs then output, and what the binary
\* recorded for each position.
LastOperands == last.inputs \o <<last.output>>

Recorded == LastBinary.inShapeInfos \o <<LastBinary.outShapeInfo>>

SameCount == Len(last.inputs) = Len(LastBinary.inShapeInfos)

\* The layout of an operand as a ShapeInfo states it: logical shape, texture
\* shape, storage mode, packed flag, presence of a nonzero slice offset.
StorageOf(x) == IF x.isUniform THEN "uniform" ELSE "texture"

TexShapeOf(x) == IF x.isUniform THEN Null ELSE x.texData.texShape

PackedOf(x) == IF x.isUniform THEN FALSE ELSE x.texData.isPacked

OffsetPresent(x) ==
    IF x.isUniform THEN FALSE
    ELSE IF IsNull(x.texData.slice) THEN FALSE
    ELSE x.texData.slice.flatOffset > 0

LayoutMatches(s, x) ==
    /\ s.logicalShape = x.shape
    /\ s.isUniform = x.isUniform
    /\ s.texShape = TexShapeOf(x)
    /\ s.isPacked = PackedOf(x)
    /\ IsNull(s.flatOffset) = ~OffsetPresent(x)

\* ----------------------------------------------------------------- claims

\* C1: runProgram never reaches gpgpu.executeProgram with a binary whose
\* recorded ShapeInfo of some input or of the output (logical shape, texture
\* shape, storage mode, packed flag, presence of a nonzero slice offset)
\* differs from the layout of the operand passed at that position.
C1_DispatchOnlyOnCompiledLayout ==
    (Executed /\ Dispatched) =>
        /\ SameCount
        /\ \A k \in 1..Len(Recorded) : LayoutMatches(Recorded[k], LastOperands[k])

\* The latest call differs from its binary in the number of inputs or in a
\* logical shape.
C2_Mismatch ==
    \/ ~SameCount
    \/ \E i \in 1..Len(last.inputs) :
          /\ i <= Len(LastBinary.inShapeInfos)
          /\ last.inputs[i].shape # LastBinary.inShapeInfos[i].logicalShape
    \/ last.output.shape # LastBinary.outShapeInfo.logicalShape

\* C2: when the number of inputs differs from the number of recorded
\* ShapeInfos, or the logical shape of an input or of the output differs
\* from the recorded one, runProgram throws and does not dispatch.
C2_ShapeMismatchRejected ==
    (Executed /\ C2_Mismatch) =>
        /\ last.error \in {"inputs", "shapes", "texture shapes"}
        /\ NotDispatched

\* C2 witness: every input matches its record, the output's logical shape
\* does not, and the call threw.
C2_Witness ==
    /\ Executed
    /\ SameCount
    /\ Len(last.inputs) = 2
    /\ \A i \in 1..Len(last.inputs) :
          LayoutMatches(LastBinary.inShapeInfos[i], last.inputs[i])
    /\ last.output.shape # LastBinary.outShapeInfo.logicalShape
    /\ last.error = "shapes"
    /\ NotDispatched

\* Operand k of the latest call has the recorded logical shape and is a
\* texture on both sides, of another texture shape.
C3_TexShapeDiffers(k) ==
    /\ Recorded[k].logicalShape = LastOperands[k].shape
    /\ ~Recorded[k].isUniform
    /\ ~LastOperands[k].isUniform
    /\ Recorded[k].texShape # LastOperands[k].texData.texShape

C3_Acceptable(k) ==
    /\ Recorded[k].logicalShape = LastOperands[k].shape
    /\ \/ Recorded[k].isUniform /\ LastOperands[k].isUniform
       \/ /\ ~Recorded[k].isUniform
          /\ ~LastOperands[k].isUniform
          /\ Recorded[k].texShape = LastOperands[k].texData.texShape

\* C3: an operand whose logical shape equals the recorded one and that is a
\* texture on both sides makes runProgram throw when its texture shape
\* differs from the recorded one; when counts and logical shapes agree and
\* every operand is a uniform on both sides or a texture of the recorded
\* texture shape, the call is accepted.
C3_TextureShapeChecked ==
    (Executed /\ SameCount) =>
        /\ (\E k \in 1..Len(Recorded) : C3_TexShapeDiffers(k)) =>
              (last.error \in {"shapes", "texture shapes"} /\ NotDispatched)
        /\ (\A k \in 1..Len(Recorded) : C3_Acceptable(k)) =>
              (last.error = "none" /\ Dispatched)

\* C3 witness: a uniform input run on a binary that recorded a uniform is
\* passed over, and the output's texture shape alone rejects the call.
C3_Witness ==
    /\ Executed
    /\ SameCount
    /\ \E i \in 1..Len(last.inputs) :
          last.inputs[i].isUniform /\ LastBinary.inShapeInfos[i].isUniform
    /\ \A i \in 1..Len(last.inputs) : C3_Acceptable(i)
    /\ C3_TexShapeDiffers(Len(Recorded))
    /\ last.error = "texture shapes"

\* Step k of the latest call is the invocation of the hook.
C6_HookAt(k) == last.ops[k].op = "customSetup"

\* C6: a successful call that is given a setup hook invokes it exactly once,
\* after every upload and binding of the call and before the one dispatch, so
\* the value the hook writes is the one the dispatch reads.
C6_HookLastBeforeDispatch ==
    (Succeeded /\ ~IsNull(last.customSetup)) =>
        /\ Cardinality({k \in 1..Len(last.ops) : C6_HookAt(k)}) = 1
        /\ Cardinality({k \in 1..Len(last.ops) :
                           last.ops[k].op = "executeProgram"}) = 1
        /\ last.ops[Len(last.ops)].op = "executeProgram"
        /\ \A h \in 1..Len(last.ops) : C6_HookAt(h) =>
              /\ last.ops[h].program = LastBinary.webGLProgram
              /\ \A k \in (h + 1)..(Len(last.ops) - 1) :
                    /\ last.ops[k].op = "uniform"
                    /\ last.ops[k].loc.name = last.customSetup.name
                    /\ last.ops[k].value.vals = <<last.customSetup.value>>
        /\ \A l \in DOMAIN gl.drawn.uniforms :
              (l.program = LastBinary.webGLProgram
               /\ l.name = last.customSetup.name
               /\ l.name \in ActiveUniforms(LastBinary.source)) =>
                 gl.drawn.uniforms[l].value.vals = <<last.customSetup.value>>

\* C6 witness: the call uploaded NAN itself, the hook overwrote it, and the
\* dispatch read the hook's value.
C6_Witness ==
    /\ Succeeded
    /\ ~IsNull(last.customSetup)
    /\ ~IsNull(LastBinary.nanLoc)
    /\ \E k \in 1..Len(last.ops) :
          /\ last.ops[k].op = "uniform"
          /\ last.ops[k].loc = LastBinary.nanLoc
          /\ last.ops[k].value.special = "NaN"
    /\ Len(last.inputs) = 2
    /\ Dispatched
    /\ gl.drawn.uniforms[LastBinary.nanLoc].value.vals
          = <<last.customSetup.value>>

\* The locations the binary holds that are not null.
ResolvedLocations(binary) ==
    {binary.uniformLocations[n] : n \in DOMAIN binary.uniformLocations}
    \cup {binary.nanLoc, binary.infLoc}

\* C7: at each dispatch every uniform whose location the binary resolved at
\* compile time, the offset<name> uniforms included, holds a value that the
\* same runProgram call uploaded.
C7_EveryResolvedUniformFresh ==
    (Succeeded /\ Dispatched) =>
        \A l \in ResolvedLocations(LastBinary) \ {Null} :
            /\ l \in DOMAIN gl.drawn.uniforms
            /\ gl.drawn.uniforms[l].call = last.call

\* C8: whatever runs follow, successful or failed, every binary is exactly
\* what compileProgram returned for its arguments.
C8_BinariesAsCompiled ==
    \A b \in 1..Len(binaries) :
        binaries[b] =
            compileProgram([gl EXCEPT !.programs = SubSeq(@, 1, b - 1)],
                           compiledFrom[b].program, compiledFrom[b].inputs,
                           compiledFrom[b].output).binary

\* C8 witness: a successful run and then a failed one have happened.
C8_Witness ==
    /\ Failed
    /\ last.call = 2
    /\ ~IsNull(gl.drawn)
    /\ Len(binaries) = 1

\* The uniform names that belong to one input.
NamesOfInput(varName) ==
    {varName, offsetName(varName)} \cup Range(InputFamily(varName))

OpsOfInput(i) ==
    SelectSeq(last.ops,
        LAMBDA o :
            \/ /\ o.op = "uniform"
               /\ o.loc.name \in NamesOfInput(LastBinary.program.variableNames[i])
               /\ IsNull(last.customSetup) \/ o.loc.name # last.customSetup.name
            \/ /\ o.op = "setInputMatrixTexture"
               /\ o.unit = i - 1)

RECURSIVE Product(_)
Product(shape) ==
    IF shape = << >> THEN 1 ELSE shape[1] * Product(Tail(shape))

\* C10: an input uploaded as a uniform whose primary location was resolved
\* is uploaded with one call, gl.uniform1f of its first value when the
\* product of its logical shape is below 2 and gl.uniform1fv of all its
\* values otherwise; no shape, strides, texture shape, offset or other
\* uniform of that input is uploaded and no texture is bound for it.
C10_UniformInputUpload ==
    Succeeded =>
        \A i \in 1..Len(last.inputs) :
            (/\ last.inputs[i].isUniform
             /\ ~IsNull(Lookup(LastBinary.uniformLocations,
                               LastBinary.program.variableNames[i]))) =>
                /\ Len(OpsOfInput(i)) = 1
                /\ OpsOfInput(i)[1].op = "uniform"
                /\ OpsOfInput(i)[1].loc =
                      Location(LastBinary.webGLProgram,
                               LastBinary.program.variableNames[i])
                /\ OpsOfInput(i)[1].value.special = "none"
                /\ IF Product(last.inputs[i].shape) < 2
                   THEN /\ OpsOfInput(i)[1].value.kind = "1f"
                        /\ OpsOfInput(i)[1].value.vals =
                              <<last.inputs[i].uniformValues.vals[1]>>
                   ELSE /\ OpsOfInput(i)[1].value.kind = "1fv"
                        /\ Len(OpsOfInput(i)[1].value.vals) =
                              Len(last.inputs[i].uniformValues.vals)
                        /\ \A k \in 1..Len(last.inputs[i].uniformValues.vals) :
                              OpsOfInput(i)[1].value.vals[k] =
                                 ToFloat32(last.inputs[i].uniformValues.vals[k])

\* C10 witness: the vector [1,4] went up with gl.uniform1fv as the first
\* input of a binary program whose second input is a texture.
C10_Witness ==
    /\ Succeeded
    /\ Len(last.inputs) = 2
    /\ last.inputs[1].isUniform
    /\ ~last.inputs[2].isUniform
    /\ last.inputs[1].shape = <<1, 4>>
    /\ Len(OpsOfInput(1)) = 1
    /\ OpsOfInput(1)[1].value.kind = "1fv"
    /\ OpsOfInput(1)[1].value.vals = <<1, 2, 3, 16777216>>

\* Two operands are layout-equivalent: same logical shape, same texture shape
\* or both uniforms, same presence of a nonzero slice offset.
LayoutEquivalent(x, y) ==
    /\ x.shape = y.shape
    /\ StorageOf(x) = StorageOf(y)
    /\ TexShapeOf(x) = TexShapeOf(y)
    /\ OffsetPresent(x) = OffsetPresent(y)

KeyOperands(call) == call.inputs \o <<call.output>>

ListsEquivalent(c, d) ==
    /\ Len(KeyOperands(c)) = Len(KeyOperands(d))
    /\ \A k \in 1..Len(KeyOperands(c)) :
          LayoutEquivalent(KeyOperands(c)[k], KeyOperands(d)[k])

\* C4: for one program, two makeShaderKey calls whose operand lists are
\* layout-equivalent position by position return equal keys, whatever the
\* texture handles, uniform values, packed flags and offset magnitudes.
C4_EquivalentLayoutsEqualKeys ==
    (/\ Len(keyed) = 2
     /\ keyed[1].program = keyed[2].program
     /\ ListsEquivalent(keyed[1], keyed[2])) =>
        keyed[1].key = keyed[2].key

\* C4 witness: two calls on two inputs that differ in the first input's
\* texture handle and offset magnitude and in the output's packed flag, with
\* one key.
C4_Witness ==
    /\ Len(keyed) = 2
    /\ keyed[1].program = keyed[2].program
    /\ keyed[1].inputs = <<Sliced, Vector>>
    /\ keyed[2].inputs = <<SlicedMore, Vector>>
    /\ keyed[1].output = OutPlain
    /\ keyed[2].output = OutPacked
    /\ keyed[1].key = keyed[2].key

\* C5: two makeShaderKey calls return the same key only if their operand
\* lists have the same length and are layout-equivalent position by
\* position: a difference in a logical shape, a texture shape, a storage
\* mode or an offset presence gives another key.
C5_EqualKeysEquivalentLayouts ==
    (Len(keyed) = 2 /\ keyed[1].key = keyed[2].key) =>
        /\ keyed[1].program = keyed[2].program
        /\ ListsEquivalent(keyed[1], keyed[2])

\* C5 witness: two calls for one program that differ only in the presence
\* of a nonzero offset on the first input, with different keys.
C5_Witness ==
    /\ Len(keyed) = 2
    /\ keyed[1].program = keyed[2].program
    /\ keyed[1].inputs = <<Plain, Scalar>>
    /\ keyed[2].inputs = <<Sliced, Scalar>>
    /\ keyed[1].output = keyed[2].output
    /\ keyed[1].key # keyed[2].key

\* Two location tables record the same names, each null in both or in none.
SameStatus(t, u) ==
    /\ DOMAIN t = DOMAIN u
    /\ \A n \in DOMAIN t : IsNull(t[n]) = IsNull(u[n])

\* C9: two compileProgram calls with the same program and operands on one
\* context return binaries with the same source, the same input and output
\* ShapeInfos and uniform-location tables of the same names, each resolved
\* in both or absent in both, whatever happened on the context in between.
C9_RecompilationDeterministic ==
    \A b \in 1..Len(binaries), c \in 1..Len(binaries) :
        compiledFrom[b] = compiledFrom[c] =>
            /\ binaries[b].source = binaries[c].source
            /\ binaries[b].inShapeInfos = binaries[c].inShapeInfos
            /\ binaries[b].outShapeInfo = binaries[c].outShapeInfo
            /\ SameStatus(binaries[b].uniformLocations,
                          binaries[c].uniformLocations)
            /\ IsNull(binaries[b].nanLoc) = IsNull(binaries[c].nanLoc)
            /\ IsNull(binaries[b].infLoc) = IsNull(binaries[c].infLoc)

\* C9 witness: the same arguments were compiled twice into two programs of
\* the context, and the second binary was dispatched by the second call.
C9_Witness ==
    /\ Len(binaries) = 2
    /\ compiledFrom[1] = compiledFrom[2]
    /\ binaries[1].webGLProgram # binaries[2].webGLProgram
    /\ \E n \in DOMAIN binaries[2].uniformLocations :
          ~IsNull(binaries[2].uniformLocations[n])
    /\ Succeeded
    /\ last.call = 2
    /\ last.binary = 2

\* The uploads of the latest call to the uniform `name` of its program.
UploadsOf(name) ==
    SelectSeq(last.ops,
        LAMBDA o : o.op = "uniform"
                   /\ o.loc = Location(LastBinary.webGLProgram, name))

\* Input i of the latest call is a texture whose sampler location the
\* binary resolved.
TextureInputUploaded(i) ==
    /\ ~last.inputs[i].isUniform
    /\ ~IsNull(Lookup(LastBinary.uniformLocations,
                      LastBinary.program.variableNames[i]))

Resolved(name) == ~IsNull(Lookup(LastBinary.uniformLocations, name))

\* A shape without its axes of size 1.
RECURSIVE WithoutUnitAxes(_)
WithoutUnitAxes(shape) ==
    IF shape = << >> THEN << >>
    ELSE IF Head(shape) = 1 THEN WithoutUnitAxes(Tail(shape))
    ELSE <<Head(shape)>> \o WithoutUnitAxes(Tail(shape))

\* Row-major strides: for each axis but the last, the number of elements one
\* step along it skips.
RowMajorStrides(shape) ==
    [k \in 1..(Len(shape) - 1) |-> Product(SubSeq(shape, k + 1, Len(shape)))]

\* The last two axes halved, rounding up.
LastTwoHalved(shape) ==
    [k \in 1..Len(shape) |->
        IF k >= Len(shape) - 1
        THEN CHOOSE n \in 0..shape[k] : 2 * n >= shape[k] /\ 2 * n < shape[k] + 2
        ELSE shape[k]]

\* The shape the claims expect the shader to see for an input.
VisibleShape(i) ==
    IF LastBinary.program.usesPackedTextures
    THEN LastTwoHalved(last.inputs[i].shape)
    ELSE WithoutUnitAxes(last.inputs[i].shape)

\* The latest call uploaded exactly `vals` to `name` with gl.uniform1iv.
UploadedVector(name, vals) ==
    /\ Len(UploadsOf(name)) = 1
    /\ UploadsOf(name)[1].value.kind = "1iv"
    /\ UploadsOf(name)[1].value.vals = vals

\* C11: for a texture input of a program that does not use packed textures
\* the shape uniform uploaded is the logical shape without its axes of size
\* 1 and the strides uniform holds the row-major strides of that shape; for
\* a program that uses packed textures both come from the packed transform
\* of the logical shape.
C11_InputShapeSqueezedOrPacked ==
    Succeeded =>
        \A i \in 1..Len(last.inputs) :
            TextureInputUploaded(i) =>
                /\ Resolved("shape" \o LastBinary.program.variableNames[i]) =>
                      UploadedVector(
                          "shape" \o LastBinary.program.variableNames[i],
                          VisibleShape(i))
                /\ Resolved("strides" \o LastBinary.program.variableNames[i]) =>
                      UploadedVector(
                          "strides" \o LastBinary.program.variableNames[i],
                          RowMajorStrides(VisibleShape(i)))

\* C11 witness: the input of logical shape [2,1,6] of a program without
\* packed textures went up as shape [2,6] and strides [6].
C11_Witness ==
    /\ Succeeded
    /\ ~LastBinary.program.usesPackedTextures
    /\ last.inputs = <<Cube>>
    /\ UploadedVector("shapeA", <<2, 6>>)
    /\ UploadedVector("stridesA", <<6>>)

\* The least integer that is at least x / 2.
HalfRoundedUp(x) == CHOOSE n \in 0..x : 2 * n >= x /\ 2 * n < x + 2

HalvedTexShape(texShape) ==
    <<HalfRoundedUp(texShape[1]), HalfRoundedUp(texShape[2])>>

\* C12: for every texture input and for a non-scalar output of texture shape
\* (h, w), the packed texture shape uploaded, when its location is
\* recorded, is (ceil(h/2), ceil(w/2)), whether or not the program uses
\* packed textures.
C12_PackedTexShapeHalvedUp ==
    Succeeded =>
        /\ \A i \in 1..Len(last.inputs) :
              (/\ TextureInputUploaded(i)
               /\ Resolved("packedTexShape"
                           \o LastBinary.program.variableNames[i])) =>
                  UploadedVector(
                      "packedTexShape" \o LastBinary.program.variableNames[i],
                      HalvedTexShape(last.inputs[i].texData.texShape))
        /\ (Len(last.output.shape) > 0 /\ Resolved("outputPackedTexShape")) =>
              UploadedVector("outputPackedTexShape",
                             HalvedTexShape(last.output.texData.texShape))

\* C12 witness: a program without packed textures ran on an input of texture
\* shape (3,4) and an output of texture shape (3,5); (2,2) and (2,3) went up.
C12_Witness ==
    /\ Succeeded
    /\ ~LastBinary.program.usesPackedTextures
    /\ last.inputs = <<Cube>>
    /\ last.output = OutPlain
    /\ UploadedVector("packedTexShapeA", <<2, 2>>)
    /\ UploadedVector("outputPackedTexShape", <<2, 3>>)

\* The gl.uniform1f uploads of NaN and of Infinity by the latest call.
ConstantUploads(special) ==
    SelectSeq(last.ops,
        LAMBDA o : /\ o.op = "uniform"
                   /\ o.value.kind = "1f"
                   /\ o.value.special = special)

InfinityRule ==
    /\ Len(ConstantUploads("Infinity")) = 1 <=>
          (webglVersion = 1 /\ ~IsNull(LastBinary.infLoc))
    /\ Len(ConstantUploads("Infinity")) = 0 <=>
          ~(webglVersion = 1 /\ ~IsNull(LastBinary.infLoc))
    /\ \A k \in 1..Len(ConstantUploads("Infinity")) :
          ConstantUploads("Infinity")[k].loc = LastBinary.infLoc
    /\ \A b \in 1..Len(binaries) :
          webglVersion # 1 => IsNull(binaries[b].infLoc)

\* C14 as stated: every successful call uploads NaN; it uploads Infinity iff
\* the version is 1 and the location was resolved, and compileProgram
\* resolves that location only under version 1.
C14_NaNAlways ==
    Succeeded =>
        /\ Len(ConstantUploads("NaN")) = 1
        /\ InfinityRule

\* C14: a successful call uploads NaN iff compileProgram resolved the NAN
\* location, and Infinity iff the version is 1 and the INFINITY location was
\* resolved; compileProgram resolves INFINITY only under version 1.
C14_ConstantsWhenResolved ==
    Succeeded =>
        /\ Len(ConstantUploads("NaN")) = 1 <=> ~IsNull(LastBinary.nanLoc)
        /\ Len(ConstantUploads("NaN")) = 0 <=> IsNull(LastBinary.nanLoc)
        /\ \A k \in 1..Len(ConstantUploads("NaN")) :
              ConstantUploads("NaN")[k].loc = LastBinary.nanLoc
        /\ InfinityRule

\* C14 witness: under version 2 a call uploaded NaN and no Infinity.
C14_Witness ==
    /\ Succeeded
    /\ webglVersion = 2
    /\ Len(ConstantUploads("NaN")) = 1
    /\ Len(ConstantUploads("Infinity")) = 0

\* The texture bindings of the latest call to the unit `unit`.
BindingsOf(unit) ==
    SelectSeq(last.ops,
        LAMBDA o : o.op = "setInputMatrixTexture" /\ o.unit = unit)

\* C15: a successful call does nothing for an input whose sampler location
\* was not resolved, uploads no layout uniform that has no recorded
\* location, still binds every other texture input to the unit of its
\* position and uploads every other uniform input, and dispatches.
C15_UnresolvedSkipped ==
    Succeeded =>
        /\ Dispatched
        /\ \A k \in 1..Len(last.ops) :
              last.ops[k].op \in {"uniform", "setInputMatrixTexture"} =>
                 ~IsNull(last.ops[k].loc)
        /\ \A i \in 1..Len(last.inputs) :
              IF ~Resolved(LastBinary.program.variableNames[i])
              THEN Len(OpsOfInput(i)) = 0
              ELSE IF last.inputs[i].isUniform
              THEN Len(OpsOfInput(i)) = 1
              ELSE /\ Len(BindingsOf(i - 1)) = 1
                   /\ BindingsOf(i - 1)[1].texture =
                         last.inputs[i].texData.texture
                   /\ BindingsOf(i - 1)[1].loc =
                         Location(LastBinary.webGLProgram,
                                  LastBinary.program.variableNames[i])
                   /\ \A n \in Range(InputFamily(
                                   LastBinary.program.variableNames[i])) :
                         Len(UploadsOf(n)) = (IF Resolved(n) THEN 1 ELSE 0)

\* C15 witness: the first input of a two-input program has no location, the
\* second is a texture; nothing was done for the first, the second was bound
\* to unit 1 and the call dispatched.
C15_Witness ==
    /\ Succeeded
    /\ Dispatched
    /\ Len(last.inputs) = 2
    /\ ~Resolved("A")
    /\ ~last.inputs[1].isUniform
    /\ Len(OpsOfInput(1)) = 0
    /\ Len(BindingsOf(0)) = 0
    /\ Len(BindingsOf(1)) = 1
    /\ BindingsOf(1)[1].loc.name = "B"

\* The latest call uploaded exactly the number n to `name` with gl.uniform1i.
UploadedNumber(name, n) ==
    /\ Len(UploadsOf(name)) = 1
    /\ UploadsOf(name)[1].value.kind = "1i"
    /\ UploadsOf(name)[1].value.special = "none"
    /\ UploadsOf(name)[1].value.vals = <<n>>

\* The output's uniform family derived from the shape `shape`, for the names
\* that have a recorded location; a texel count is stated when the axes it
\* is computed from exist.
OutputFamilyFrom(shape) ==
    /\ Resolved("outputShape") => UploadedVector("outputShape", shape)
    /\ Resolved("outputStrides") =>
          UploadedVector("outputStrides", RowMajorStrides(shape))
    /\ Resolved("outputTexShape") =>
          UploadedVector("outputTexShape", last.output.texData.texShape)
    /\ Resolved("outputPackedTexShape") =>
          UploadedVector("outputPackedTexShape",
                         HalvedTexShape(last.output.texData.texShape))
    /\ (Resolved("outputTexelsInLogicalRow") /\ Len(shape) >= 1) =>
          UploadedNumber("outputTexelsInLogicalRow",
                         HalfRoundedUp(shape[Len(shape)]))
    /\ (Resolved("outputTexelsInBatch") /\ Len(shape) >= 2) =>
          UploadedNumber("outputTexelsInBatch",
                         HalfRoundedUp(shape[Len(shape)])
                         * HalfRoundedUp(shape[Len(shape) - 1]))

NoOutputUniform == \A n \in Range(OutputFamily) : Len(UploadsOf(n)) = 0

StepsOf(op) == {k \in 1..Len(last.ops) : last.ops[k].op = op}

HookStep == CHOOSE k \in StepsOf("customSetup") : TRUE

\* The stage of runProgram that step k belongs to: 1 the output binding,
\* 2 setProgram, 3 the constants, 4 the inputs, 5 the output uniforms, 6 the
\* hook and what it writes, 7 the dispatch.
Stage(k) ==
    LET o == last.ops[k]
    IN  IF o.op \in {"setOutputMatrixTexture", "setOutputPackedMatrixTexture"}
        THEN 1
        ELSE IF o.op = "setProgram" THEN 2
        ELSE IF o.op = "executeProgram" THEN 7
        ELSE IF o.op = "customSetup" THEN 6
        ELSE IF StepsOf("customSetup") # {} /\ k > HookStep THEN 6
        ELSE IF o.op = "setInputMatrixTexture" THEN 4
        ELSE IF o.loc.name \in {"NAN", "INFINITY"} THEN 3
        ELSE IF o.loc.name \in Range(OutputFamily) THEN 5
        ELSE 4

\* The position of the input that a step of stage 4 belongs to.
InputOf(k) ==
    IF last.ops[k].op = "setInputMatrixTexture" THEN last.ops[k].unit + 1
    ELSE CHOOSE i \in 1..Len(last.inputs) :
            last.ops[k].loc.name
               \in NamesOfInput(LastBinary.program.variableNames[i])

\* The render target the latest call's output asks for.
TargetOf(output) ==
    [texture |-> output.texData.texture,
     rows |-> output.texData.texShape[1],
     columns |-> output.texData.texShape[2],
     packed |-> output.texData.isPacked]

\* C17: a successful call binds the output once, with the packed call iff
\* the output is packed, then sets the binary's program, then uploads the
\* constants, the inputs in declared order and the output uniforms, then
\* calls the hook, and dispatches once as its last operation; the program
\* and the render target of every dispatch are those of the call issuing it.
C17_OperationsInOrder ==
    Succeeded =>
        /\ Len(last.ops) >= 3
        /\ last.ops[1].op = (IF last.output.texData.isPacked
                             THEN "setOutputPackedMatrixTexture"
                             ELSE "setOutputMatrixTexture")
        /\ last.ops[1].texture = last.output.texData.texture
        /\ last.ops[1].rows = last.output.texData.texShape[1]
        /\ last.ops[1].columns = last.output.texData.texShape[2]
        /\ last.ops[2] = [op |-> "setProgram",
                          program |-> LastBinary.webGLProgram]
        /\ StepsOf("setOutputMatrixTexture")
              \cup StepsOf("setOutputPackedMatrixTexture") = {1}
        /\ StepsOf("setProgram") = {2}
        /\ StepsOf("executeProgram") = {Len(last.ops)}
        /\ StepsOf("customSetup") # {} <=> ~IsNull(last.customSetup)
        /\ \A j, k \in 1..Len(last.ops) :
              j < k =>
                 /\ Stage(j) <= Stage(k)
                 /\ (Stage(j) = 4 /\ Stage(k) = 4) => InputOf(j) <= InputOf(k)
        /\ gl.drawn.call = last.call
        /\ gl.drawn.program = LastBinary.webGLProgram
        /\ gl.drawn.target = TargetOf(last.output)

\* C17 witness: the second call ran another binary than the first, with a
\* hook, on a packed output, and its dispatch used its own program and
\* target while uniforms of the first call's program are still set.
C17_Witness ==
    /\ Succeeded
    /\ last.call = 2
    /\ last.binary = 2
    /\ Len(last.inputs) = 2
    /\ ~IsNull(last.customSetup)
    /\ last.output = OutPacked
    /\ last.ops[1].op = "setOutputPackedMatrixTexture"
    /\ gl.drawn.program = LastBinary.webGLProgram
    /\ \E l \in DOMAIN gl.uniforms :
          l.program # LastBinary.webGLProgram /\ gl.uniforms[l].call = 1

\* C18: a runProgram call that throws on the validation of its inputs or of
\* its output has performed no operation on the context: the bound program,
\* the render target, the uniform values, the texture bindings and the
\* record of the latest dispatch are as before the call.
C18_FailedCallTouchesNothing ==
    [][(last'.call # last.call /\ last'.error # "none") =>
          (gl' = gl /\ last'.ops = << >>)]_vars

\* C18 witness: after a successful call, a call whose inputs are valid and
\* whose output is not threw; the context still shows the first call's
\* program, target and dispatch, and the hook it was given wrote nothing.
C18_Witness ==
    /\ Failed
    /\ last.call = 2
    /\ ~IsNull(last.customSetup)
    /\ validateBinaryAndProgram(LastBinary.inShapeInfos, last.inputs) = "none"
    /\ validateBinaryAndProgram(<<LastBinary.outShapeInfo>>, <<last.output>>)
          # "none"
    /\ ~IsNull(gl.drawn)
    /\ gl.drawn.call = 1
    /\ gl.target = gl.drawn.target
    /\ gl.target # TargetOf(last.output)
    /\ \A l \in DOMAIN gl.uniforms : gl.uniforms[l].call = 1

\* The latest call uploaded to `name` one positive integer, n.
UploadedPositive(name, n) == n > 0 /\ UploadedNumber(name, n)

\* C19: for every texture input, when the locations are recorded, the call
\* uploads valuesPerRow = ceil(L/2) and texelsInBatch = valuesPerRow *
\* ceil(M/2), L and M being the last and the second-to-last axis of the
\* shader-visible shape, and both are positive integers.
C19_TexelCountsDefined ==
    Succeeded =>
        \A i \in 1..Len(last.inputs) :
            TextureInputUploaded(i) =>
                /\ Resolved("valuesPerRow"
                            \o LastBinary.program.variableNames[i]) =>
                      IF Len(VisibleShape(i)) < 1 THEN FALSE
                      ELSE UploadedPositive(
                              "valuesPerRow"
                                 \o LastBinary.program.variableNames[i],
                              HalfRoundedUp(
                                 VisibleShape(i)[Len(VisibleShape(i))]))
                /\ Resolved("texelsInBatch"
                            \o LastBinary.program.variableNames[i]) =>
                      IF Len(VisibleShape(i)) < 2 THEN FALSE
                      ELSE UploadedPositive(
                              "texelsInBatch"
                                 \o LastBinary.program.variableNames[i],
                              HalfRoundedUp(
                                 VisibleShape(i)[Len(VisibleShape(i))])
                              * HalfRoundedUp(
                                   VisibleShape(i)[Len(VisibleShape(i)) - 1]))

\* ------------------------------------------------- the key and the validator

\* The operands of a binary looked up by key: textures of one logical shape
\* that differ in texture shape, packing and slice, and two uniforms.
CacheInputs ==
    {Plain, Sliced, SlicedAtZero, Square, Packed, Vector, VectorOther}

CacheOutputs == {OutPlain, OutPacked, OutWide}

\* One binary, compiled on some operands and run on others, of the same
\* number or of one less or more.
NextCache ==
    \/ /\ binaries = << >>
       /\ \E program \in Programs, output \in CacheOutputs :
            \E inputs \in Lists(CacheInputs, SecondInputs,
                                Len(program.variableNames)) :
               CompileProgram(program, inputs, output)
    \/ \E b \in 1..Len(binaries), output \in CacheOutputs :
         \E inputs \in Lists(CacheInputs, SecondInputs,
                             Len(binaries[b].program.variableNames))
                       \cup Lists({Plain}, {Plain},
                             Len(binaries[b].program.variableNames) - 1)
                       \cup Lists({Plain}, {Plain},
                             Len(binaries[b].program.variableNames) + 1) :
            RunProgram(b, inputs, output, Null)

SpecCache == InitKey /\ [][NextCache]_vars

\* The key of the operands the latest binary was compiled on, and the key of
\* the operands of the latest call, both for the binary's program.
CompiledKey ==
    makeShaderKey(LastBinary.program, compiledFrom[last.binary].inputs,
                  compiledFrom[last.binary].output)

CalledKey == makeShaderKey(LastBinary.program, last.inputs, last.output)

\* C20: when the key of the operands of a call equals the key of the
\* operands its binary was compiled on, the call passes both validations
\* and reaches the dispatch.
C20_EqualKeyPassesValidation ==
    (Executed /\ CalledKey = CompiledKey) => (Succeeded /\ Dispatched)

\* A call on operands that are not the compiled ones (a packed texture, a
\* slice at offset zero) and have the same key was dispatched.
C20_Witness ==
    /\ Executed
    /\ CalledKey = CompiledKey
    /\ last.inputs # compiledFrom[last.binary].inputs
    /\ last.output # compiledFrom[last.binary].output
    /\ \E i \in 1..Len(last.inputs) :
          /\ ~last.inputs[i].isUniform
          /\ ~compiledFrom[last.binary].inputs[i].isUniform
          /\ IsNull(last.inputs[i].texData.slice)
               # IsNull(compiledFrom[last.binary].inputs[i].texData.slice)
    /\ Succeeded
    /\ Dispatched

====
